---------------------------- MODULE Spec2Model ----------------------------
(***************************************************************************)
(* The admin analytics tool servers of gabrielalamo/admin-mcp-server.      *)
(*                                                                         *)
(* The repository holds five near-duplicate Express programs:              *)
(*   SrvApi    src/api/index.js              /functions/*, /mcp/call       *)
(*   SrvOpen   src/unnamed/part_000:147-476  /execute, /tool/call,         *)
(*                                           /mcp/call (no authentication) *)
(*   SrvMin    src/unnamed/part_001:1-148    /execute, /mcp/call (stubs)   *)
(*   SrvAuth   src/unnamed/part_001:150-459  /mcp/call                     *)
(*   SrvKey    src/unnamed/part_002          /execute, /mcp/call           *)
(* One process runs one of them against the shared Supabase backend.  A    *)
(* request is handled as a sequence of steps, one per awaited backend      *)
(* call; everything between two awaits is one atomic step.                 *)
(***************************************************************************)
EXTENDS Integers, Sequences, FiniteSets, TLC

(***************************************************************************)
(* Bounds of the model.                                                    *)
(***************************************************************************)
\* Dates are day numbers 1..MaxDay.
MaxDay == 3
\* Nested router.handle calls the stack holds before it overflows.
StackLimit == 3
MaxPayments == 2

(***************************************************************************)
(* JavaScript values.                                                      *)
(***************************************************************************)
\* undefined, for string-valued fields (tool, method, action, userId).
Absent == "<undefined>"
\* undefined, for date-valued fields (startDate, endDate).
NoDate == 0
\* undefined / null, for numbers read from a backend reply (count).
Undef == -1

\* !x for the string-valued fields: undefined and "" are falsy.
Falsy(x) == x \in {Absent, ""}
\* !x for a date field.
FalsyDate(d) == d = NoDate
\* x || 0 for a count.
OrZero(x) == IF x = Undef THEN 0 ELSE x

\* The `data` object of manage_user: absent, or an object holding `cols`.
NoData == [present |-> FALSE, cols |-> {}]
Data(c) == [present |-> TRUE, cols |-> c]

\* An argument object (params / arguments / a /functions body), or undefined.
Obj(s, e, a, u, d) ==
    [present |-> TRUE, startDate |-> s, endDate |-> e,
     action |-> a, userId |-> u, data |-> d]
Undefined ==
    [present |-> FALSE, startDate |-> NoDate, endDate |-> NoDate,
     action |-> Absent, userId |-> Absent, data |-> NoData]
EmptyObj == Obj(NoDate, NoDate, Absent, Absent, NoData)
\* `params || {}` and the default parameter `params = {}`.
OrEmpty(o) == IF o.present THEN o ELSE EmptyObj

(***************************************************************************)
(* The server variants, their routes and their tool lists.                 *)
(***************************************************************************)
SrvApi  == "api/index.js"
SrvOpen == "part_000"
SrvMin  == "part_001:1"
SrvAuth == "part_001:150"
SrvKey  == "part_002"
Servers == {SrvApi, SrvOpen, SrvMin, SrvAuth, SrvKey}

GUA == "get_user_analytics"
GPA == "get_payment_analytics"
MU  == "manage_user"
LU  == "list_users"

FnUA == "/functions/get_user_analytics"
FnPA == "/functions/get_payment_analytics"
FnMU == "/functions/manage_user"
McpCall  == "/mcp/call"
Execute  == "/execute"
ToolCall == "/tool/call"

\* The POST routes each program registers for invoking a tool.
Routes(srv) ==
    CASE srv = SrvApi  -> {FnUA, FnPA, FnMU, McpCall}
      [] srv = SrvOpen -> {Execute, ToolCall, McpCall}
      [] srv = SrvMin  -> {Execute, McpCall}
      [] srv = SrvAuth -> {McpCall}
      [] srv = SrvKey  -> {Execute, McpCall}

\* The routes registered with the `authenticate` middleware.
Guarded(srv) ==
    CASE srv = SrvApi  -> {FnUA, FnPA, FnMU, McpCall}
      [] srv = SrvAuth -> {McpCall}
      [] srv = SrvKey  -> {Execute, McpCall}
      [] OTHER         -> {}

\* The tool names each program lists at its discovery endpoint.
Registered(srv) ==
    IF srv \in {SrvApi, SrvAuth} THEN {GUA, GPA, MU} ELSE {GUA, GPA, LU}

(***************************************************************************)
(* The backend tables.                                                     *)
(***************************************************************************)
Columns == {"name", "email", "role", "created_at"}
\* The value a caller's patch carries for a column.
PatchValue == [name |-> "n9", email |-> "e9", role |-> "admin", created_at |-> MaxDay]

User(i, c, u) ==
    [id |-> i, name |-> "n0", email |-> "e0", role |-> "user",
     created_at |-> c, updated_at |-> u]
SeedProfiles == {User("u1", 1, 1), User("u2", 2, 2), User("u3", MaxDay, MaxDay)}

Payment(a, s, c) == [amount |-> a, status |-> s, created_at |-> c]
SeedPayments ==
    << Payment(100, "completed", 1), Payment(50, "pending", 2),
       Payment(70, "completed", MaxDay) >>

\* The 30-day window of "active" users, in days.
WindowDays == 30
\* The instants at which a request may read the clock.
ClockValues == {WindowDays + 1, WindowDays + MaxDay}

\* The message of an error object the backend client returns.
BackendMsg == <<"backend failure">>

\* .gte('created_at', s).lte('created_at', e)
InRangeGteOnly(c, s, e) == c >= s
InRange(c, s, e) == c >= s /\ c <= e

\* from('profiles').select('*', {count: 'exact', head: true})
CountAll(P) == Cardinality(P)
\* from('profiles').select('id').gte('updated_at', cutoff)
ActiveRows(P, cutoff) == {r \in P : r.updated_at >= cutoff}
\* from('profiles').select('*', {count}).gte('created_at', s).lte('created_at', e)
CountCreated(P, s, e) == Cardinality({r \in P : InRange(r.created_at, s, e)})

RECURSIVE FilterRows(_, _, _)
\* The rows of a table (a sequence) that pass the created_at filter.
FilterRows(rows, s, e) ==
    IF rows = <<>> THEN <<>>
    ELSE LET rest == FilterRows(Tail(rows), s, e)
         IN  IF InRange(Head(rows).created_at, s, e)
             THEN <<Head(rows)>> \o rest ELSE rest

DeleteRowsUnfiltered(P, id) == {}
\* A write that adds a row to the table.
DeleteRowsInserting(P, id) == P \cup {User("u9", 1, MaxDay)}

\* A row with the columns of a patch overwritten: update(data) sends every
\* key of data to the backend.
Patched(r, cols) ==
    [id |-> r.id,
     name  |-> IF "name"  \in cols THEN PatchValue.name  ELSE r.name,
     email |-> IF "email" \in cols THEN PatchValue.email ELSE r.email,
     role  |-> IF "role"  \in cols THEN PatchValue.role  ELSE r.role,
     created_at |-> IF "created_at" \in cols THEN PatchValue.created_at
                    ELSE r.created_at,
     updated_at |-> r.updated_at]
\* from('profiles').update(data).eq('id', id)
UpdateRows(P, id, cols) ==
    {IF r.id = id THEN Patched(r, cols) ELSE r : r \in P}
\* from('profiles').delete().eq('id', id)
DeleteRows(P, id) == {r \in P : r.id # id}

(***************************************************************************)
(* Requests and responses.                                                 *)
(***************************************************************************)
\* A header value is a sequence of pieces; <<>> is a header not sent.
NoHeader == <<>>
Bearer == "Bearer "
\* The value of MCP_API_KEY when it is set.
TheKey == <<"k1">>

\* The body of a request: the envelope fields of /mcp/call (method, params),
\* those of /execute (tool, arguments) and the top-level argument fields a
\* /functions route reads.
Body(m, p, t, a, own) ==
    [method |-> m, params |-> p, tool |-> t, arguments |-> a,
     startDate |-> own.startDate, endDate |-> own.endDate,
     action |-> own.action, userId |-> own.userId, data |-> own.data]

\* The body a client sends to `url` to invoke tool `name` with `args`.
Envelope(url, name, args) ==
    CASE url = McpCall -> Body(name, args, Absent, Undefined, Undefined)
      [] url \in {Execute, ToolCall} ->
                          Body(Absent, Undefined, name, args, Undefined)
      [] OTHER         -> Body(Absent, Undefined, Absent, Undefined, args)

NoPayload == [kind |-> "none"]
NoResp == [status |-> 0, error |-> <<>>, result |-> NoPayload, wrapped |-> FALSE]
\* res.status(s).json({ error: msg })
ErrorResp(s, msg) ==
    [status |-> s, error |-> msg, result |-> NoPayload, wrapped |-> FALSE]
\* res.json(result) or res.json({ result })
OkResp(payload, w) ==
    [status |-> 200, error |-> <<>>, result |-> payload, wrapped |-> w]

\* The locals of the operation a handler is running.
NoLoc == [op |-> "none", args |-> Undefined, total |-> Undef,
          active |-> Undef, now |-> 0]

\* No exchange was completed yet.
NoLast == [url |-> "", name |-> Absent, args |-> Undefined, before |-> {},
           queries |-> <<>>, now |-> 0, resp |-> NoResp]

\* A request slot with no request in it.
NoOther ==
    [pc |-> "idle",
     req |-> [url |-> "", headers |-> [authorization |-> NoHeader,
                                      xApiKey |-> NoHeader],
              body |-> Body(Absent, Undefined, Absent, Undefined, Undefined)],
     sent |-> [url |-> "", name |-> Absent, args |-> Undefined],
     before |-> {}, loc |-> NoLoc, queries |-> <<>>, depth |-> 0, resp |-> NoResp]

VARIABLES
    server,    \* the program this process runs
    apiKey,    \* process.env.MCP_API_KEY: <<>> when not set
    profiles,  \* the rows of the backend table `profiles`
    payments,  \* the rows of the backend table `payments`
    pc,        \* where the request in flight is
    req,       \* the Express request object: url, headers, body
    sent,      \* the invocation as the client sent it: url, name, args
    before,    \* `profiles` when the request arrived
    loc,       \* the locals of the running operation
    queries,   \* the backend calls this request has issued, with their outcome
    depth,     \* nested router.handle calls of this request
    resp,      \* the response sent, NoResp while none is
    last,      \* the previous exchange, as its client keeps it
    other      \* the request whose handler is not the one running

vars == <<server, apiKey, profiles, payments, pc, req, sent, before, loc,
          queries, depth, resp, last, other>>

(***************************************************************************)
(* The inputs.                                                             *)
(***************************************************************************)
Days == 1..MaxDay
DateInputs == {NoDate} \cup Days
NameInputs == {GUA, GPA, MU, LU, "GET_USER_ANALYTICS", "bogus", "", Absent}
ActionInputs == {"list", "update", "delete", "bogus", "", Absent}
UserIdInputs == {Absent, "", "u1", "zz"}

AnalyticsArgs ==
    {Undefined} \cup
    {Obj(s, e, Absent, Absent, NoData) : s \in DateInputs, e \in DateInputs}
UserArgs ==
    {Undefined} \cup
    {Obj(NoDate, NoDate, a, u, NoData) : a \in ActionInputs, u \in UserIdInputs}
    \cup
    {Obj(NoDate, NoDate, "update", u, Data(c)) :
        u \in UserIdInputs, c \in SUBSET Columns}
ArgsFor(name) ==
    CASE name \in {GUA, GPA} -> AnalyticsArgs
      [] name = MU           -> UserArgs
      [] OTHER               -> {Undefined, EmptyObj}

\* authorization and x-api-key as sent.
HeaderInputs ==
    { [authorization |-> NoHeader,          xApiKey |-> NoHeader],
      [authorization |-> <<Bearer, "k1">>,  xApiKey |-> NoHeader],
      [authorization |-> <<Bearer, "bad">>, xApiKey |-> NoHeader],
      [authorization |-> <<"k1">>,          xApiKey |-> NoHeader],
      [authorization |-> NoHeader,          xApiKey |-> <<"k1">>],
      [authorization |-> <<Bearer, "k1">>,  xApiKey |-> <<"bad">>] }

\* The tool names a client can address at a route: a /functions route names
\* its tool in the path.
NamesAt(url) ==
    CASE url = FnUA -> {GUA}
      [] url = FnPA -> {GPA}
      [] url = FnMU -> {MU}
      [] OTHER      -> NameInputs

(***************************************************************************)
(* The state after start-up.                                               *)
(***************************************************************************)
Init ==
    /\ server \in Servers
    /\ apiKey \in {NoHeader, TheKey}
    /\ profiles = SeedProfiles
    /\ payments = SeedPayments
    /\ pc = "idle"
    /\ req = [url |-> "", headers |-> [authorization |-> NoHeader,
                                       xApiKey |-> NoHeader],
              body |-> Body(Absent, Undefined, Absent, Undefined, Undefined)]
    /\ sent = [url |-> "", name |-> Absent, args |-> Undefined]
    /\ before = SeedProfiles
    /\ loc = NoLoc
    /\ queries = <<>>
    /\ depth = 0
    /\ resp = NoResp
    /\ last = NoLast
    /\ other = NoOther

(***************************************************************************)
(* Routing and the authentication middleware.                              *)
(***************************************************************************)
\* Where the router takes a POST to `url`: to authenticate, or to the handler.
RoutePc(srv, url) == IF url \in Guarded(srv) THEN "auth" ELSE "handler"

\* The router takes a POST to `url` with headers `h`, naming `name` with
\* arguments `args`, once the previous request is finished.
Arrive(url, h, name, args) ==
    /\ pc = "idle"
    /\ req' = [url |-> url, headers |-> h, body |-> Envelope(url, name, args)]
    /\ sent' = [url |-> url, name |-> name, args |-> args]
    /\ pc' = RoutePc(server, url)
    /\ before' = profiles
    /\ loc' = NoLoc
    /\ queries' = <<>>
    /\ depth' = 0
    /\ resp' = NoResp
    /\ UNCHANGED <<server, apiKey, last, other, profiles, payments>>

\* A request arrives.
Receive ==
    \E url \in Routes(server), h \in HeaderInputs :
    \E name \in NamesAt(url) :
    \E args \in ArgsFor(name) : Arrive(url, h, name, args)

\* The reply of authenticate: next() or a rejection.
AuthNext == [next |-> TRUE, status |-> 0, error |-> <<>>]
AuthReject(s, msg) == [next |-> FALSE, status |-> s, error |-> msg]

\* authHeader.replace('Bearer ', ''): the first occurrence removed.
RECURSIVE StripBearer(_)
StripBearer(h) ==
    IF h = <<>> THEN <<>>
    ELSE IF Head(h) = Bearer THEN Tail(h)
    ELSE <<Head(h)>> \o StripBearer(Tail(h))

\* authenticate of api/index.js and of part_001:150.
AuthBearer(key, hs) ==
    LET authHeader == hs.authorization IN
    IF key = <<>> THEN AuthNext
    ELSE IF authHeader = <<>> \/ Head(authHeader) # Bearer
         THEN AuthReject(401, <<"Missing authorization header">>)
    ELSE IF Tail(authHeader) # key
         THEN AuthReject(403, <<"Invalid API key">>)
    ELSE AuthNext

\* authenticate of part_002.
AuthKey(key, hs) ==
    LET providedKey == IF hs.xApiKey # <<>> THEN hs.xApiKey
                       ELSE StripBearer(hs.authorization)
    IN  IF key = <<>> THEN AuthNext
        ELSE IF providedKey # key THEN AuthReject(401, <<"Unauthorized">>)
        ELSE AuthNext

Authenticate ==
    /\ pc = "auth"
    /\ LET r == IF server = SrvKey THEN AuthKey(apiKey, req.headers)
                ELSE AuthBearer(apiKey, req.headers)
       IN  IF r.next
           THEN pc' = "handler" /\ resp' = resp
           ELSE pc' = "done" /\ resp' = ErrorResp(r.status, r.error)
    /\ UNCHANGED <<server, apiKey, last, other, profiles, payments, req, sent, before, loc,
                   queries, depth>>

\* String(x) as a template literal renders it.
Str(x) == IF x = Absent THEN "undefined" ELSE x

\* Whether the handler at `url` sends { result } rather than the bare result.
Wrapped(srv, url) ==
    \/ srv \in {SrvApi, SrvAuth} /\ url = McpCall
    \/ srv = SrvKey /\ url = Execute

\* Whether the program's operations test the `error` of a backend reply.
ChecksErrors(srv) == srv \in {SrvApi, SrvAuth}

\* if (startDate && endDate)
HasRangeEither(args) == ~FalsyDate(args.startDate) \/ ~FalsyDate(args.endDate)
HasRange(args) == ~FalsyDate(args.startDate) /\ ~FalsyDate(args.endDate)

(***************************************************************************)
(* The handlers, up to their first await.                                  *)
(***************************************************************************)
\* The handler sends `r` and returns.
Send(r) == pc' = "done" /\ resp' = r
\* The handler calls operation `op` with `args` and awaits at `at`.
Call(op, args, at) ==
    /\ pc' = at
    /\ loc' = [NoLoc EXCEPT !.op = op, !.args = args]
    /\ resp' = resp

\* What manageUser does before it awaits: throw, or issue a backend call.
Throw(msg) == [throws |-> TRUE, msg |-> msg, at |-> "done"]
Await(at) == [throws |-> FALSE, msg |-> <<>>, at |-> at]
TypeErrorMsg == <<"Cannot destructure property 'action' of 'params' as it is undefined.">>
UserIdRequired(action) == <<"userId is required for ", action, " action">>
UnknownAction(action) == <<"Unknown action: ", Str(action)>>

ManageUserEntryUnchecked(params) ==
    IF ~params.present THEN Throw(TypeErrorMsg)
    ELSE CASE params.action = "list"   -> Await("mu_list")
           [] params.action = "update" -> Await("mu_update")
           [] params.action = "delete" -> Await("mu_delete")
           [] OTHER -> Throw(UnknownAction(params.action))
ManageUserEntry(params) ==
    IF ~params.present THEN Throw(TypeErrorMsg)
    ELSE CASE params.action = "list" -> Await("mu_list")
           [] params.action = "update" ->
                IF Falsy(params.userId) THEN Throw(UserIdRequired("update"))
                ELSE Await("mu_update")
           [] params.action = "delete" ->
                IF Falsy(params.userId) THEN Throw(UserIdRequired("delete"))
                ELSE Await("mu_delete")
           [] OTHER -> Throw(UnknownAction(params.action))

\* A handler calls manageUser(params) inside its try block.
CallManageUser(params) ==
    LET e == ManageUserEntry(params) IN
    IF e.throws
    THEN Send(ErrorResp(500, e.msg)) /\ loc' = [NoLoc EXCEPT !.op = MU, !.args = params]
    ELSE Call(MU, params, e.at)

\* POST /mcp/call of api/index.js and part_001:150.
HandleMcpCall ==
    /\ pc = "handler" /\ server \in {SrvApi, SrvAuth} /\ req.url = McpCall
    /\ LET method == req.body.method
           params == req.body.params
       IN  IF Falsy(method)
           THEN Send(ErrorResp(400, <<"Method is required">>)) /\ loc' = loc
           ELSE CASE method = GUA -> Call(GUA, OrEmpty(params), "ua_total")
                  [] method = GPA -> Call(GPA, OrEmpty(params), "pa_query")
                  [] method = MU  -> CallManageUser(params)
                  [] OTHER -> /\ Send(ErrorResp(400, <<"Unknown method: ", method>>))
                              /\ loc' = loc
    /\ UNCHANGED <<server, apiKey, last, other, profiles, payments, req, sent, before,
                   queries, depth>>

\* POST /functions/get_user_analytics, /functions/get_payment_analytics and
\* /functions/manage_user of api/index.js.
HandleFunctions ==
    /\ pc = "handler" /\ server = SrvApi /\ req.url \in {FnUA, FnPA, FnMU}
    /\ LET b == req.body
           range == Obj(b.startDate, b.endDate, Absent, Absent, NoData)
       IN  CASE req.url = FnUA -> Call(GUA, range, "ua_total")
             [] req.url = FnPA -> Call(GPA, range, "pa_query")
             [] req.url = FnMU ->
                  IF Falsy(b.action)
                  THEN Send(ErrorResp(400, <<"action is required">>)) /\ loc' = loc
                  ELSE CallManageUser(
                           Obj(NoDate, NoDate, b.action, b.userId, b.data))
    /\ UNCHANGED <<server, apiKey, last, other, profiles, payments, req, sent, before,
                   queries, depth>>

\* POST /execute of part_000 and part_002.
HandleExecute ==
    /\ pc = "handler" /\ server \in {SrvOpen, SrvKey} /\ req.url = Execute
    /\ LET tool == req.body.tool
           args == OrEmpty(req.body.arguments)
       IN  IF Falsy(tool)
           THEN Send(ErrorResp(400, <<"Tool name is required">>)) /\ loc' = loc
           ELSE CASE tool = GUA -> Call(GUA, args, "ua_total")
                  [] tool = GPA -> Call(GPA, args, "pa_query")
                  [] tool = LU  -> Call(LU, Undefined, "lu_query")
                  [] OTHER -> /\ Send(ErrorResp(400, <<"Unknown tool: ", tool>>))
                              /\ loc' = loc
    /\ UNCHANGED <<server, apiKey, last, other, profiles, payments, req, sent, before,
                   queries, depth>>

ZeroPayments ==
    [kind |-> "payment_analytics", totalRevenue |-> 0, totalTransactions |-> 0,
     completedTransactions |-> 0,
     conversionRate |-> [type |-> "number", num |-> 0, den |-> 1]]

\* POST /execute of part_001:1, which has no test of `tool` before its switch.
HandleExecuteMin ==
    /\ pc = "handler" /\ server = SrvMin /\ req.url = Execute
    /\ LET tool == req.body.tool
       IN  CASE tool = GUA -> Call(GUA, OrEmpty(req.body.arguments), "min_total")
             [] tool = GPA -> /\ Send(OkResp(ZeroPayments, FALSE))
                              /\ loc' = [NoLoc EXCEPT !.op = GPA,
                                           !.args = OrEmpty(req.body.arguments)]
             [] tool = LU  -> Call(LU, Undefined, "min_list")
             [] OTHER -> /\ Send(ErrorResp(400, <<"Unknown tool: ", Str(tool)>>))
                         /\ loc' = loc
    /\ UNCHANGED <<server, apiKey, last, other, profiles, payments, req, sent, before,
                   queries, depth>>

(***************************************************************************)
(* The forwarding routes: the handler hands the request back to the        *)
(* router, which runs its stack on the stack of the caller.                *)
(***************************************************************************)
\* The router is entered again with the request as it now is; when the
\* stack is exhausted the RangeError reaches the error middleware (500) or
\* is lost in the rejected promise of an async handler (no response).
Reenter(r) ==
    IF depth < StackLimit
    THEN /\ req' = r
         /\ depth' = depth + 1
         /\ pc' = RoutePc(server, r.url)
         /\ resp' = resp
    ELSE /\ req' = r
         /\ depth' = depth
         /\ \/ Send(ErrorResp(500, <<"Internal server error">>))
            \/ pc' = "crashed" /\ resp' = resp

\* req.body = { tool: method, arguments: params }
Rewritten(b) == Body(Absent, Undefined, b.method, b.params, Undefined)

\* POST /tool/call of part_000.
HandleToolCall ==
    /\ pc = "handler" /\ server = SrvOpen /\ req.url = ToolCall
    /\ Reenter([req EXCEPT !.url = Execute])
    /\ UNCHANGED <<server, apiKey, last, other, profiles, payments, sent, before, loc, queries>>

\* POST /mcp/call of part_000 and part_001:1: the body is rewritten and the
\* url set to /execute.
ForwardMcpCall ==
    /\ pc = "handler" /\ server \in {SrvOpen, SrvMin} /\ req.url = McpCall
    /\ Reenter([req EXCEPT !.url = Execute, !.body = Rewritten(req.body)])
    /\ UNCHANGED <<server, apiKey, last, other, profiles, payments, sent, before, loc, queries>>

\* POST /mcp/call of part_002: the body is rewritten and req.url is left as
\* it is.
ForwardMcpCallKey ==
    /\ pc = "handler" /\ server = SrvKey /\ req.url = McpCall
    /\ Reenter([req EXCEPT !.body = Rewritten(req.body)])
    /\ UNCHANGED <<server, apiKey, last, other, profiles, payments, sent, before, loc, queries>>

(***************************************************************************)
(* The operations: one step per awaited backend call.  A backend call      *)
(* either succeeds or returns an error object; it never throws.            *)
(***************************************************************************)
\* The record of a backend call in `queries`.
Query(q, ok) == [q |-> q, ok |-> ok]

\* A handler without a catch block: the rejection is unhandled and the
\* request is left without a response.
FailUnanswered(msg) == pc' = "crashed" /\ resp' = resp
\* The handler's catch block: res.status(500).json({ error: error.message }).
Fail(msg) == Send(ErrorResp(500, msg))
\* The handler's res.json after the operation returned `payload`.
Reply(payload) == Send(OkResp(payload, Wrapped(server, req.url)))

\* The result built from a total kept in a variable of the module, which the
\* other request in flight overwrites.
UAResultSharedTotal(total, active, new) ==
    [kind |-> "user_analytics",
     totalUsers |-> OrZero(IF other.loc.total # Undef THEN other.loc.total
                                                      ELSE total),
     activeUsers |-> OrZero(active), newUsers |-> new]
\* return { totalUsers: totalUsers || 0, activeUsers: activeUsers?.length || 0,
\*          newUsers }
UAResult(total, active, new) ==
    [kind |-> "user_analytics", totalUsers |-> OrZero(total),
     activeUsers |-> OrZero(active), newUsers |-> new]

\* getUserAnalytics: the count of all rows.
UATotal ==
    /\ pc = "ua_total"
    /\ \E ok \in BOOLEAN :
         /\ queries' = Append(queries, Query("count_all", ok))
         /\ IF ~ok /\ ChecksErrors(server)
            THEN Fail(BackendMsg) /\ loc' = loc
            ELSE /\ loc' = [loc EXCEPT
                              !.total = IF ok THEN CountAll(profiles) ELSE Undef]
                 /\ pc' = "ua_active"
                 /\ resp' = resp
    /\ UNCHANGED <<server, apiKey, last, other, profiles, payments, req, sent, before, depth>>

\* getUserAnalytics: the rows updated in the last 30 days; without a date
\* range the result is returned after this call.
UAActive ==
    /\ pc = "ua_active"
    /\ \E ok \in BOOLEAN, now \in ClockValues :
         /\ queries' = Append(queries, Query("select_active", ok))
         /\ IF ~ok /\ ChecksErrors(server)
            THEN Fail(BackendMsg) /\ loc' = loc
            ELSE LET n == IF ok
                          THEN Cardinality(ActiveRows(profiles, now - WindowDays))
                          ELSE Undef
                 IN  /\ loc' = [loc EXCEPT !.active = n, !.now = now]
                     /\ IF HasRange(loc.args)
                        THEN pc' = "ua_new" /\ resp' = resp
                        ELSE Reply(UAResult(loc.total, n, 0))
    /\ UNCHANGED <<server, apiKey, last, other, profiles, payments, req, sent, before, depth>>

\* getUserAnalytics: the rows created in [startDate, endDate].
UANew ==
    /\ pc = "ua_new"
    /\ \E ok \in BOOLEAN :
         /\ queries' = Append(queries, Query("count_created", ok))
         /\ IF ~ok /\ ChecksErrors(server)
            THEN Fail(BackendMsg)
            ELSE LET count == IF ok
                              THEN CountCreated(profiles, loc.args.startDate,
                                                loc.args.endDate)
                              ELSE Undef
                 IN  Reply(UAResult(loc.total, loc.active, OrZero(count)))
    /\ UNCHANGED <<server, apiKey, last, other, profiles, payments, req, sent, before, loc,
                   depth>>

RECURSIVE Revenue(_)
\* filter(p => p.status === 'completed').reduce((sum, p) => sum + p.amount, 0)
Revenue(rows) ==
    IF rows = <<>> THEN 0
    ELSE (IF Head(rows).status = "completed" THEN Head(rows).amount ELSE 0)
         + Revenue(Tail(rows))
\* filter(p => p.status === 'completed').length
Completed(rows) == Len(SelectSeq(rows, LAMBDA p : p.status = "completed"))

RatioNoPercent(c, t) ==
    IF t > 0 THEN [type |-> "number", num |-> c, den |-> t]
    ELSE [type |-> "number", num |-> 0, den |-> 1]
\* totalTransactions > 0 ? (completedTransactions / totalTransactions) * 100 : 0
\* as the fraction num/den.
Ratio(c, t) ==
    IF t > 0 THEN [type |-> "number", num |-> c * 100, den |-> t]
    ELSE [type |-> "number", num |-> 0, den |-> 1]
\* conversionRate.toFixed(2): a string, the ratio rounded to hundredths.
ToFixed2(r) ==
    [type |-> "string", num |-> (2 * r.num * 100 + r.den) \div (2 * r.den),
     den |-> 100]

\* The result of getPaymentAnalytics from the rows the backend returned.
PAResult(srv, rows) ==
    LET t == Len(rows)
        c == Completed(rows)
    IN  [kind |-> "payment_analytics", totalRevenue |-> Revenue(rows),
         totalTransactions |-> t, completedTransactions |-> c,
         conversionRate |-> IF ChecksErrors(srv) THEN Ratio(c, t)
                            ELSE ToFixed2(Ratio(c, t))]

\* getPaymentAnalytics: its one query; a reply without data gives `payments`
\* undefined, which every `?.` and `|| 0` turns into zeros.
PAQuery ==
    /\ pc = "pa_query"
    /\ \E ok \in BOOLEAN :
         /\ queries' = Append(queries, Query("select_payments", ok))
         /\ IF ~ok /\ ChecksErrors(server)
            THEN Fail(BackendMsg)
            ELSE LET rows == IF ~ok THEN <<>>
                             ELSE IF HasRange(loc.args)
                             THEN FilterRows(payments, loc.args.startDate,
                                             loc.args.endDate)
                             ELSE payments
                 IN  Reply(PAResult(server, rows))
    /\ UNCHANGED <<server, apiKey, last, other, profiles, payments, req, sent, before, loc,
                   depth>>

\* .limit(100) of the user lists, .limit(10) of part_001:1.
ListLimit == 100
MinListLimit == 10

Min(a, b) == IF a < b THEN a ELSE b
\* The rows a select with .limit(n) may return.
Limited(P, n) == {S \in SUBSET P : Cardinality(S) = Min(n, Cardinality(P))}
\* select('id, email, name, created_at, role')
Project(r) == [id |-> r.id, email |-> r.email, name |-> r.name,
               created_at |-> r.created_at, role |-> r.role]
\* select('id, email, name')
ProjectMin(r) == [id |-> r.id, email |-> r.email, name |-> r.name]

\* manageUser, action list.
MUList ==
    /\ pc = "mu_list"
    /\ \E ok \in BOOLEAN :
         /\ queries' = Append(queries, Query("select_users", ok))
         /\ IF ~ok THEN Fail(BackendMsg)
            ELSE \E S \in Limited(profiles, ListLimit) :
                   Reply([kind |-> "users", users |-> {Project(r) : r \in S},
                          count |-> Undef])
    /\ UNCHANGED <<server, apiKey, last, other, profiles, payments, req, sent, before, loc,
                   depth>>

\* .single() when the update matched no row, or more than one.
NoSingleRow == <<"JSON object requested, multiple (or no) rows returned">>

\* manageUser, action update: update(data).eq('id', userId).select().single().
MUUpdate ==
    /\ pc = "mu_update"
    /\ \E ok \in BOOLEAN :
         LET id == loc.args.userId
             hit == {r \in profiles : r.id = id}
         IN  /\ queries' = Append(queries, Query("update_user", ok))
             /\ IF ~ok THEN Fail(BackendMsg) /\ profiles' = profiles
                ELSE IF Cardinality(hit) # 1
                THEN Fail(NoSingleRow) /\ profiles' = profiles
                ELSE /\ profiles' = UpdateRows(profiles, id, loc.args.data.cols)
                     /\ Reply([kind |-> "updated",
                               updated |-> Patched(CHOOSE r \in hit : TRUE,
                                                   loc.args.data.cols)])
    /\ UNCHANGED <<server, apiKey, last, other, payments, req, sent, before, loc, depth>>

\* manageUser, action delete: delete().eq('id', userId).
MUDelete ==
    /\ pc = "mu_delete"
    /\ \E ok \in BOOLEAN :
         /\ queries' = Append(queries, Query("delete_user", ok))
         /\ IF ~ok THEN Fail(BackendMsg) /\ profiles' = profiles
            ELSE /\ profiles' = DeleteRows(profiles, loc.args.userId)
                 /\ Reply([kind |-> "deleted", deleted |-> TRUE])
    /\ UNCHANGED <<server, apiKey, last, other, payments, req, sent, before, loc, depth>>

\* listUsers of part_000 and part_002: the error of the reply is not read.
LUQuery ==
    /\ pc = "lu_query"
    /\ \E ok \in BOOLEAN :
         /\ queries' = Append(queries, Query("select_users", ok))
         /\ \E S \in (IF ok THEN Limited(profiles, ListLimit) ELSE {{}}) :
              Reply([kind |-> "users", users |-> {Project(r) : r \in S},
                     count |-> Cardinality(S)])
    /\ UNCHANGED <<server, apiKey, last, other, profiles, payments, req, sent, before, loc,
                   depth>>

\* get_user_analytics of part_001:1: the count of all rows, and constants.
MinTotal ==
    /\ pc = "min_total"
    /\ \E ok \in BOOLEAN :
         /\ queries' = Append(queries, Query("count_all", ok))
         /\ Reply(UAResult(IF ok THEN CountAll(profiles) ELSE Undef, 0, 0))
    /\ UNCHANGED <<server, apiKey, last, other, profiles, payments, req, sent, before, loc,
                   depth>>

\* list_users of part_001:1.
MinList ==
    /\ pc = "min_list"
    /\ \E ok \in BOOLEAN :
         /\ queries' = Append(queries, Query("select_users", ok))
         /\ \E S \in (IF ok THEN Limited(profiles, MinListLimit) ELSE {{}}) :
              Reply([kind |-> "users_min", users |-> {ProjectMin(r) : r \in S}])
    /\ UNCHANGED <<server, apiKey, last, other, profiles, payments, req, sent, before, loc,
                   depth>>

\* The response is on the wire and the handler has returned (or the process
\* was restarted): nothing of the request is kept.
Finish ==
    /\ pc \in {"done", "crashed"}
    /\ pc' = "idle"
    /\ req' = [url |-> "", headers |-> [authorization |-> NoHeader,
                                        xApiKey |-> NoHeader],
               body |-> Body(Absent, Undefined, Absent, Undefined, Undefined)]
    /\ sent' = [url |-> "", name |-> Absent, args |-> Undefined]
    /\ before' = profiles
    /\ loc' = NoLoc
    /\ queries' = <<>>
    /\ depth' = 0
    /\ resp' = NoResp
    /\ UNCHANGED <<server, apiKey, last, other, profiles, payments>>

Next ==
    \/ Receive \/ Authenticate \/ Finish
    \/ HandleMcpCall \/ HandleFunctions \/ HandleExecute \/ HandleExecuteMin
    \/ HandleToolCall \/ ForwardMcpCall \/ ForwardMcpCallKey
    \/ UATotal \/ UAActive \/ UANew \/ PAQuery
    \/ MUList \/ MUUpdate \/ MUDelete \/ LUQuery \/ MinTotal \/ MinList
Spec == Init /\ [][Next]_vars

(***************************************************************************)
(* get_payment_analytics over every small table of payments.               *)
(***************************************************************************)
\* The rows of `payments` as getPaymentAnalytics reads them.
PaymentRows ==
    {Payment(a, s, c) : a \in {50, 100}, s \in {"completed", "pending"},
                        c \in {1, MaxDay}}
PaymentTables == UNION {[1..n -> PaymentRows] : n \in 0..MaxPayments}

InitPayments ==
    /\ server \in Servers
    /\ apiKey = NoHeader
    /\ profiles = SeedProfiles
    /\ payments \in PaymentTables
    /\ pc = "idle"
    /\ req = [url |-> "", headers |-> [authorization |-> NoHeader,
                                       xApiKey |-> NoHeader],
              body |-> Body(Absent, Undefined, Absent, Undefined, Undefined)]
    /\ sent = [url |-> "", name |-> Absent, args |-> Undefined]
    /\ before = SeedProfiles
    /\ loc = NoLoc
    /\ queries = <<>>
    /\ depth = 0
    /\ resp = NoResp
    /\ last = NoLast
    /\ other = NoOther

\* A request for get_payment_analytics arrives at one of the routes that
\* reach it.
ReceivePayments ==
    \E url \in Routes(server) \ {FnUA, FnMU}, args \in AnalyticsArgs :
       Arrive(url, [authorization |-> NoHeader, xApiKey |-> NoHeader],
              GPA, args)

NextPayments ==
    \/ ReceivePayments \/ Authenticate \/ Finish
    \/ HandleMcpCall \/ HandleFunctions \/ HandleExecute \/ HandleExecuteMin
    \/ HandleToolCall \/ ForwardMcpCall \/ ForwardMcpCallKey
    \/ PAQuery
SpecPayments == InitPayments /\ [][NextPayments]_vars

(***************************************************************************)
(* api/index.js called through its two surfaces, /functions/{tool} and     *)
(* /mcp/call, one request after the other; the client keeps the exchange   *)
(* before the current one.                                                 *)
(***************************************************************************)
\* The argument objects sent to both surfaces.
SurfaceArgs(name) ==
    IF name = MU
    THEN {EmptyObj,
          Obj(NoDate, NoDate, "list", Absent, NoData),
          Obj(NoDate, NoDate, "bogus", Absent, NoData),
          Obj(NoDate, NoDate, "update", "u1", Data({"name"})),
          Obj(NoDate, NoDate, "delete", Absent, NoData),
          Obj(NoDate, NoDate, "delete", "zz", NoData)}
    ELSE {EmptyObj, Obj(1, MaxDay, Absent, Absent, NoData)}
\* The /functions route of a tool.
FnRoute(name) ==
    CASE name = GUA -> FnUA
      [] name = GPA -> FnPA
      [] name = MU  -> FnMU

InitSurfaces ==
    /\ server = SrvApi
    /\ apiKey = NoHeader
    /\ profiles = SeedProfiles
    /\ payments = SeedPayments
    /\ pc = "idle"
    /\ req = [url |-> "", headers |-> [authorization |-> NoHeader,
                                       xApiKey |-> NoHeader],
              body |-> Body(Absent, Undefined, Absent, Undefined, Undefined)]
    /\ sent = [url |-> "", name |-> Absent, args |-> Undefined]
    /\ before = SeedProfiles
    /\ loc = NoLoc
    /\ queries = <<>>
    /\ depth = 0
    /\ resp = NoResp
    /\ last = NoLast
    /\ other = NoOther

ReceiveSurfaces ==
    \E name \in {GUA, GPA, MU}, url \in Routes(SrvApi) :
    \E args \in SurfaceArgs(name) :
       /\ url \in {FnRoute(name), McpCall}
       /\ Arrive(url, [authorization |-> NoHeader, xApiKey |-> NoHeader],
                 name, args)

\* The response is on the wire; the client keeps the exchange.
FinishRecord ==
    /\ pc \in {"done", "crashed"}
    /\ last' = [url |-> sent.url, name |-> sent.name, args |-> sent.args,
                before |-> before, queries |-> queries, now |-> loc.now,
                resp |-> resp]
    /\ pc' = "idle"
    /\ req' = [url |-> "", headers |-> [authorization |-> NoHeader,
                                        xApiKey |-> NoHeader],
               body |-> Body(Absent, Undefined, Absent, Undefined, Undefined)]
    /\ sent' = [url |-> "", name |-> Absent, args |-> Undefined]
    /\ before' = profiles
    /\ loc' = NoLoc
    /\ queries' = <<>>
    /\ depth' = 0
    /\ resp' = NoResp
    /\ UNCHANGED <<server, apiKey, other, profiles, payments>>

NextSurfaces ==
    \/ ReceiveSurfaces \/ Authenticate \/ FinishRecord
    \/ HandleMcpCall \/ HandleFunctions
    \/ UATotal \/ UAActive \/ UANew \/ PAQuery
    \/ MUList \/ MUUpdate \/ MUDelete
SpecSurfaces == InitSurfaces /\ [][NextSurfaces]_vars

(***************************************************************************)
(* The discovery endpoints: the tool lists and the OpenAPI documents.      *)
(***************************************************************************)
GetTools          == "GET /tools"
GetMcpTools       == "GET /mcp/tools"
GetOpenApiYaml    == "GET /openapi.yaml"
GetOpenApiJson    == "GET /openapi.json"
GetApiOpenApiJson == "GET /api/openapi.json"

\* The GET routes each program registers for discovery; /api/openapi.json
\* is the route part_000:1-145 adds to index.js.
DiscoveryRoutes(srv) ==
    CASE srv = SrvApi  -> {GetMcpTools, GetOpenApiYaml, GetOpenApiJson,
                           GetApiOpenApiJson}
      [] srv = SrvAuth -> {GetMcpTools}
      [] OTHER         -> {GetTools, GetMcpTools}
\* Those registered with `authenticate`.
DiscoveryGuarded(srv) ==
    CASE srv \in {SrvApi, SrvAuth} -> {GetMcpTools}
      [] srv = SrvKey              -> {GetTools, GetMcpTools}
      [] OTHER                     -> {}

\* A schema node: the names of its properties, its `required` list and the
\* nodes of its object-valued properties that declare properties themselves.
Node(props, required, children) ==
    [properties |-> props, required |-> required, children |-> children]
Leaf(props) == Node(props, {}, {})
DateRangeSchema == Leaf({"startDate", "endDate"})
\* inputSchema of manage_user in /mcp/tools and its schema in /openapi.json:
\* data is { type: 'object' }.
ManageUserSchemaWithoutAction ==
    Node({"userId", "data"}, {"action"}, {})
ManageUserSchema ==
    Node({"action", "userId", "data"}, {"action"}, {})
\* The schema of manage_user in /openapi.yaml and /api/openapi.json: data
\* declares name, email and role.
ManageUserSchemaDeep ==
    Node({"action", "userId", "data"}, {"action"},
         {Leaf({"name", "email", "role"})})

\* An entry of a tool list.
Descriptor(name, schema) == [name |-> name, schema |-> schema]
\* The tools of GET /tools of part_000, part_001:1 and part_002.
ToolsListWithManageUser(srv) ==
    {Descriptor(GUA, DateRangeSchema), Descriptor(GPA, DateRangeSchema),
     Descriptor(MU, ManageUserSchema), Descriptor(LU, Leaf({}))}
ToolsList(srv) ==
    {Descriptor(GUA, DateRangeSchema), Descriptor(GPA, DateRangeSchema),
     Descriptor(LU, Leaf({}))}
\* The tools of GET /mcp/tools of api/index.js and part_001:150.
McpToolsList ==
    {Descriptor(GUA, DateRangeSchema), Descriptor(GPA, DateRangeSchema),
     Descriptor(MU, ManageUserSchema)}

\* An entry of `paths`: the path, its operationId, the schema of the request
\* body and the schema of the 200 response.
PathEntry(path, id, request, response) ==
    [path |-> path, operationId |-> id, request |-> request,
     response |-> response]
UserAnalyticsResponse ==
    Leaf({"totalUsers", "activeUsers", "newUsers", "lastUpdated"})
PaymentAnalyticsResponse ==
    Leaf({"totalRevenue", "totalTransactions", "completedTransactions",
          "conversionRate", "lastUpdated"})
\* paths of GET /openapi.yaml.
YamlPaths ==
    {PathEntry(FnUA, "getUserAnalytics", DateRangeSchema, UserAnalyticsResponse),
     PathEntry(FnPA, "getPaymentAnalytics", DateRangeSchema,
               PaymentAnalyticsResponse),
     PathEntry(FnMU, "manageUser", ManageUserSchemaDeep,
               Node({"users", "updated", "deleted"}, {},
                    {Leaf({"id", "email", "name", "role", "created_at"})}))}
JsonPathsWithoutManageUser ==
    {PathEntry(FnUA, "getUserAnalytics", DateRangeSchema, Leaf({})),
     PathEntry(FnPA, "getPaymentAnalytics", DateRangeSchema, Leaf({}))}
\* paths of GET /openapi.json.
JsonPaths ==
    {PathEntry(FnUA, "getUserAnalytics", DateRangeSchema, Leaf({})),
     PathEntry(FnPA, "getPaymentAnalytics", DateRangeSchema, Leaf({})),
     PathEntry(FnMU, "manageUser", ManageUserSchema, Leaf({}))}
\* paths of GET /api/openapi.json.
ApiJsonPaths ==
    {PathEntry(FnUA, "getUserAnalytics", DateRangeSchema, UserAnalyticsResponse),
     PathEntry(FnPA, "getPaymentAnalytics", DateRangeSchema,
               PaymentAnalyticsResponse),
     PathEntry(FnMU, "manageUser", ManageUserSchemaDeep, Leaf({}))}

\* An OpenAPI document: servers[0].url is `${protocol}://${host}`.
OpenApi(protocol, host, paths) ==
    OkResp([kind |-> "openapi", url |-> <<protocol, "://", host>>,
            paths |-> paths], FALSE)
\* res.redirect('/tools')
Redirect(to) ==
    [status |-> 302, error |-> <<>>,
     result |-> [kind |-> "redirect", location |-> to], wrapped |-> FALSE]

\* What the handler of a discovery route sends.
DiscoveryResp(srv, r) ==
    CASE r.url = GetOpenApiYaml -> OpenApi(r.protocol, r.host, YamlPaths)
      [] r.url = GetOpenApiJson -> OpenApi(r.protocol, r.host, JsonPaths)
      [] r.url = GetApiOpenApiJson -> OpenApi("https", r.host, ApiJsonPaths)
      [] r.url = GetTools -> OkResp([kind |-> "tools", tools |-> ToolsList(srv)],
                                    FALSE)
      [] r.url = GetMcpTools ->
           IF srv \in {SrvApi, SrvAuth}
           THEN OkResp([kind |-> "tools", tools |-> McpToolsList], FALSE)
           ELSE Redirect("/tools")

HostInputs == {"a.example", "b.example:8080"}
ProtocolInputs == {"http", "https"}

\* A GET for a discovery route arrives.
ReceiveDiscovery ==
    /\ pc = "idle"
    /\ \E url \in DiscoveryRoutes(server), h \in HeaderInputs,
          host \in HostInputs, protocol \in ProtocolInputs :
          /\ req' = [url |-> url, headers |-> h,
                     body |-> Body(Absent, Undefined, Absent, Undefined,
                                   Undefined),
                     host |-> host, protocol |-> protocol]
          /\ sent' = [url |-> url, name |-> Absent, args |-> Undefined]
          /\ pc' = IF url \in DiscoveryGuarded(server) THEN "auth"
                   ELSE "handler"
    /\ before' = profiles
    /\ loc' = NoLoc
    /\ queries' = <<>>
    /\ depth' = 0
    /\ resp' = NoResp
    /\ UNCHANGED <<server, apiKey, last, other, profiles, payments>>

\* The handler of a discovery route.
HandleDiscovery ==
    /\ pc = "handler" /\ req.url \in DiscoveryRoutes(server)
    /\ Send(DiscoveryResp(server, req))
    /\ UNCHANGED <<server, apiKey, last, other, profiles, payments, req, sent, before,
                   loc, queries, depth>>

\* The arguments a client sends to a tool it was told of.
ValidArgs(name) ==
    CASE name \in {GUA, GPA} ->
           {EmptyObj, Obj(1, MaxDay, Absent, Absent, NoData)}
      [] name = MU ->
           {Obj(NoDate, NoDate, "list", Absent, NoData),
            Obj(NoDate, NoDate, "delete", "u1", NoData)}
      [] OTHER -> {EmptyObj}

\* A tool is invoked with arguments valid for it.
ReceiveValid ==
    \E url \in Routes(server), h \in HeaderInputs :
    \E name \in NamesAt(url) \ {"", Absent} :
    \E args \in ValidArgs(name) : Arrive(url, h, name, args)

\* The response of a discovery route is on the wire; the client keeps it.
FinishListing ==
    /\ sent.url \in DiscoveryRoutes(server)
    /\ FinishRecord

InitDiscovery ==
    /\ server \in Servers
    /\ apiKey \in {NoHeader, TheKey}
    /\ profiles = SeedProfiles
    /\ payments = SeedPayments
    /\ pc = "idle"
    /\ req = [url |-> "", headers |-> [authorization |-> NoHeader,
                                       xApiKey |-> NoHeader],
              body |-> Body(Absent, Undefined, Absent, Undefined, Undefined)]
    /\ sent = [url |-> "", name |-> Absent, args |-> Undefined]
    /\ before = SeedProfiles
    /\ loc = NoLoc
    /\ queries = <<>>
    /\ depth = 0
    /\ resp = NoResp
    /\ last = NoLast
    /\ other = NoOther

NextDiscovery ==
    \/ ReceiveDiscovery \/ HandleDiscovery \/ FinishListing
    \/ ReceiveValid \/ Authenticate \/ Finish
    \/ HandleMcpCall \/ HandleFunctions \/ HandleExecute \/ HandleExecuteMin
    \/ HandleToolCall \/ ForwardMcpCall \/ ForwardMcpCallKey
    \/ UATotal \/ UAActive \/ UANew \/ PAQuery
    \/ MUList \/ MUDelete \/ LUQuery \/ MinTotal \/ MinList
SpecDiscovery == InitDiscovery /\ [][NextDiscovery]_vars

(***************************************************************************)
(* Two requests in flight: the event loop runs one handler until it awaits *)
(* or returns, and may then resume the other.                              *)
(***************************************************************************)
\* The handler that was running is suspended and the other one runs.
Switch ==
    /\ pc # "idle" \/ other.pc # "idle"
    /\ other' = [pc |-> pc, req |-> req, sent |-> sent,
                 before |-> IF pc = "idle" THEN {} ELSE before,
                 loc |-> loc, queries |-> queries, depth |-> depth,
                 resp |-> resp]
    /\ pc' = other.pc
    /\ req' = other.req
    /\ sent' = other.sent
    /\ before' = IF other.pc = "idle" THEN profiles ELSE other.before
    /\ loc' = other.loc
    /\ queries' = other.queries
    /\ depth' = other.depth
    /\ resp' = other.resp
    /\ UNCHANGED <<server, apiKey, last, profiles, payments>>

\* A read-only request arrives: user_analytics, payment_analytics or the
\* user list.
ReceiveRead ==
    \E url \in IF server = SrvApi THEN {FnUA, FnPA, FnMU} ELSE {McpCall},
       name \in Registered(server) :
    \E args \in CASE name = GUA -> {Obj(1, 1, Absent, Absent, NoData),
                                    Obj(1, MaxDay, Absent, Absent, NoData)}
                  [] name = MU  -> {Obj(NoDate, NoDate, "list", Absent, NoData)}
                  [] OTHER      -> {EmptyObj} :
       /\ name \in NamesAt(url)
       /\ Arrive(url, [authorization |-> NoHeader, xApiKey |-> NoHeader],
                 name, args)

InitConcurrent ==
    /\ server \in {SrvApi, SrvOpen}
    /\ apiKey = NoHeader
    /\ profiles = SeedProfiles
    /\ payments = SeedPayments
    /\ pc = "idle"
    /\ req = [url |-> "", headers |-> [authorization |-> NoHeader,
                                       xApiKey |-> NoHeader],
              body |-> Body(Absent, Undefined, Absent, Undefined, Undefined)]
    /\ sent = [url |-> "", name |-> Absent, args |-> Undefined]
    /\ before = SeedProfiles
    /\ loc = NoLoc
    /\ queries = <<>>
    /\ depth = 0
    /\ resp = NoResp
    /\ last = NoLast
    /\ other = NoOther

NextConcurrent ==
    \/ ReceiveRead \/ Switch \/ FinishRecord \/ Authenticate
    \/ HandleFunctions \/ ForwardMcpCall \/ HandleExecute
    \/ UATotal \/ UAActive \/ UANew \/ PAQuery \/ MUList \/ LUQuery
SpecConcurrent == InitConcurrent /\ [][NextConcurrent]_vars


(***************************************************************************)
(* The active-user window against rows of every age: the table is written  *)
(* by other clients of the backend, whose timestamps need not lie before   *)
(* this process's clock.                                                   *)
(***************************************************************************)
\* Rows updated before the window of either instant, inside the window, after
\* the earlier instant and after both instants.
AgedProfiles ==
    {User("u1", 1, 0), User("u2", 1, MaxDay),
     User("u3", 1, WindowDays + MaxDay - 1),
     User("u4", 1, WindowDays + MaxDay + 1)}

\* user_analytics is invoked, with or without a date range.
ReceiveActive ==
    \E url \in IF server = SrvApi THEN {FnUA, McpCall} ELSE {Execute},
       args \in {EmptyObj, Obj(1, MaxDay, Absent, Absent, NoData)} :
       Arrive(url, [authorization |-> NoHeader, xApiKey |-> NoHeader],
              GUA, args)

InitActive ==
    /\ server \in {SrvApi, SrvKey}
    /\ apiKey = NoHeader
    /\ profiles \in SUBSET AgedProfiles
    /\ payments = SeedPayments
    /\ pc = "idle"
    /\ req = [url |-> "", headers |-> [authorization |-> NoHeader,
                                       xApiKey |-> NoHeader],
              body |-> Body(Absent, Undefined, Absent, Undefined, Undefined)]
    /\ sent = [url |-> "", name |-> Absent, args |-> Undefined]
    /\ before = profiles
    /\ loc = NoLoc
    /\ queries = <<>>
    /\ depth = 0
    /\ resp = NoResp
    /\ last = NoLast
    /\ other = NoOther

NextActive ==
    \/ ReceiveActive \/ Authenticate \/ Finish
    \/ HandleFunctions \/ HandleMcpCall \/ HandleExecute
    \/ UATotal \/ UAActive \/ UANew
SpecActive == InitActive /\ [][NextActive]_vars


(***************************************************************************)
(* api/index.js alone, with a scheduler that runs every handler it has     *)
(* started: Express calls the next middleware when next() is called, and   *)
(* the event loop resumes a handler once the backend has replied.          *)
(***************************************************************************)
InitApi ==
    /\ server = SrvApi
    /\ apiKey \in {NoHeader, TheKey}
    /\ profiles = SeedProfiles
    /\ payments = SeedPayments
    /\ pc = "idle"
    /\ req = [url |-> "", headers |-> [authorization |-> NoHeader,
                                       xApiKey |-> NoHeader],
              body |-> Body(Absent, Undefined, Absent, Undefined, Undefined)]
    /\ sent = [url |-> "", name |-> Absent, args |-> Undefined]
    /\ before = SeedProfiles
    /\ loc = NoLoc
    /\ queries = <<>>
    /\ depth = 0
    /\ resp = NoResp
    /\ last = NoLast
    /\ other = NoOther

\* Arguments that take each path of a handler: none at all, valid ones,
\* a missing userId, an unknown action.
ApiArgs(name) ==
    CASE name \in {GUA, GPA} ->
           {Undefined, EmptyObj, Obj(1, MaxDay, Absent, Absent, NoData)}
      [] name = MU ->
           {Undefined,
            Obj(NoDate, NoDate, "list", Absent, NoData),
            Obj(NoDate, NoDate, "update", "u1", Data({"role"})),
            Obj(NoDate, NoDate, "update", Absent, NoData),
            Obj(NoDate, NoDate, "delete", "u1", NoData),
            Obj(NoDate, NoDate, "bogus", Absent, NoData)}
      [] OTHER -> {Undefined, EmptyObj}

\* A request arrives at an invocation endpoint of api/index.js, with no key,
\* the key or a wrong key.
ReceiveApi ==
    \E url \in Routes(SrvApi),
       h \in { [authorization |-> NoHeader,          xApiKey |-> NoHeader],
               [authorization |-> <<Bearer, "k1">>,  xApiKey |-> NoHeader],
               [authorization |-> <<Bearer, "bad">>, xApiKey |-> NoHeader] } :
    \E name \in NamesAt(url) :
    \E args \in ApiArgs(name) :
       /\ server = SrvApi
       /\ Arrive(url, h, name, args)

\* The steps of a request once the router has taken it.
StepApi ==
    \/ Authenticate \/ HandleMcpCall \/ HandleFunctions
    \/ UATotal \/ UAActive \/ UANew \/ PAQuery
    \/ MUList \/ MUUpdate \/ MUDelete
NextApi == ReceiveApi \/ StepApi \/ Finish
SpecApi == InitApi /\ [][NextApi]_vars /\ WF_vars(StepApi)


(***************************************************************************)
(* user_analytics of api/index.js in flight together with manage_user      *)
(* update and delete.                                                      *)
(***************************************************************************)
\* user_analytics, or a manage_user update or delete, arrives.
ReceiveRace ==
    \E url \in {FnUA, FnMU}, name \in {GUA, MU} :
    \E args \in IF name = GUA
                 THEN {EmptyObj, Obj(1, MaxDay, Absent, Absent, NoData)}
                 ELSE {Obj(NoDate, NoDate, "update", "u1",
                           Data({"created_at"})),
                       Obj(NoDate, NoDate, "delete", "u1", NoData),
                       Obj(NoDate, NoDate, "delete", "u2", NoData)} :
       /\ name \in NamesAt(url)
       /\ Arrive(url, [authorization |-> NoHeader, xApiKey |-> NoHeader],
                 name, args)

InitRace ==
    /\ server = SrvApi
    /\ apiKey = NoHeader
    /\ profiles = SeedProfiles
    /\ payments = SeedPayments
    /\ pc = "idle"
    /\ req = [url |-> "", headers |-> [authorization |-> NoHeader,
                                       xApiKey |-> NoHeader],
              body |-> Body(Absent, Undefined, Absent, Undefined, Undefined)]
    /\ sent = [url |-> "", name |-> Absent, args |-> Undefined]
    /\ before = SeedProfiles
    /\ loc = NoLoc
    /\ queries = <<>>
    /\ depth = 0
    /\ resp = NoResp
    /\ last = NoLast
    /\ other = NoOther

NextRace ==
    \/ ReceiveRace \/ Switch \/ Finish \/ Authenticate \/ HandleFunctions
    \/ UATotal \/ UAActive \/ UANew \/ MUUpdate \/ MUDelete
SpecRace == InitRace /\ [][NextRace]_vars


(***************************************************************************)
(* Vocabulary of the properties.                                           *)
(***************************************************************************)
Range(f) == {f[i] : i \in DOMAIN f}

\* The request in flight has its response.
Answered == pc = "done"
\* The request in flight is over: answered, or lost with the process.
Over == pc \in {"done", "crashed"}
\* The authentication middleware refused the request.
Rejected == Answered /\ resp.status \in {401, 403}
Succeeded == Answered /\ resp.status = 200

\* The error kinds of the design, read off the message of a response.
ErrorKind(msg) ==
    CASE msg = <<>> -> "none"
      [] msg \in {<<"Tool name is required">>, <<"Method is required">>}
             -> "MissingToolName"
      [] Len(msg) = 2 /\ Head(msg) \in {"Unknown tool: ", "Unknown method: "}
             -> "UnknownTool"
      [] Len(msg) = 3 /\ Head(msg) = "userId is required for "
             -> "MissingUserId"
      [] Len(msg) = 2 /\ Head(msg) = "Unknown action: " -> "UnknownAction"
      [] msg = <<"action is required">> -> "MissingAction"
      [] msg \in {<<"Missing authorization header">>, <<"Invalid API key">>,
                  <<"Unauthorized">>} -> "Unauthorized"
      [] OTHER -> "OperationFailed"
ValidationKinds ==
    {"MissingToolName", "UnknownTool", "MissingUserId", "UnknownAction",
     "MissingAction"}

\* The routes that take the tool name from the body.
NameRoutes == {Execute, McpCall, ToolCall}
\* Some backend call of this request returned an error.
SomeQueryFailed == \E i \in DOMAIN queries : ~queries[i].ok
\* The request carries the configured key in one of its two headers.
PresentsKey ==
    \/ req.headers.authorization \in {apiKey, <<Bearer>> \o apiKey}
    \/ req.headers.xApiKey = apiKey
\* The row of `P` with id `i` (there is at most one).
RowOf(P, i) == CHOOSE r \in P : r.id = i
AllColumns == {"id", "name", "email", "role", "created_at", "updated_at"}

(***************************************************************************)
(* C1.  For every variant and every invocation endpoint (/execute,         *)
(* /mcp/call), a request that passed authentication and names a tool that  *)
(* is not one of the variant's registered names is answered with status    *)
(* 400 and a message containing that name, and issues no backend query.    *)
(* The code of part_002 breaks it: its /mcp/call re-enters itself.         *)
(***************************************************************************)
C1_UnknownToolIs400 ==
    (/\ sent.url \in {Execute, McpCall}
     /\ ~Falsy(sent.name) /\ sent.name \notin Registered(server)
     /\ ~Rejected)
    => /\ queries = <<>>
       /\ Over => /\ Answered
                  /\ resp.status = 400
                  /\ sent.name \in Range(resp.error)

(***************************************************************************)
(* C2.  A request that passed authentication and whose tool name is absent *)
(* or empty is answered with status 400 and a MissingToolName error, not   *)
(* an UnknownTool one, in every variant, and issues no backend query.      *)
(* part_001:1 has no such test and part_002's /mcp/call never reaches one. *)
(***************************************************************************)
C2_MissingToolNameIs400 ==
    (sent.url \in NameRoutes /\ Falsy(sent.name) /\ ~Rejected)
    => /\ queries = <<>>
       /\ Over => /\ Answered
                  /\ resp.status = 400
                  /\ ErrorKind(resp.error) = "MissingToolName"

(***************************************************************************)
(* C3.  When a backend query of user_analytics, payment_analytics or the   *)
(* user list returned an error, the response is a 500 carrying the         *)
(* backend's message, never a success payload.  part_000, part_001:1 and   *)
(* part_002 do not read the error of the reply.                            *)
(***************************************************************************)
C3_BackendErrorIs500 ==
    (/\ Answered /\ SomeQueryFailed
     /\ \/ loc.op \in {GUA, GPA, LU}
        \/ loc.op = MU /\ loc.args.action = "list")
    => /\ resp.status = 500
       /\ resp.error = BackendMsg
       /\ resp.result.kind = "none"

(***************************************************************************)
(* C4.  An error caused by the caller's input (MissingToolName,            *)
(* UnknownTool, MissingUserId, UnknownAction) is answered with a 4xx       *)
(* status and an error caused by the backend with a 5xx status.            *)
(* manageUser throws its validation errors into the handler's catch, which *)
(* answers 500.                                                            *)
(***************************************************************************)
C4_ValidationIs4xx ==
    (Answered /\ resp.error # <<>>)
    => /\ ErrorKind(resp.error) \in ValidationKinds
            => resp.status \in 400..499
       /\ ErrorKind(resp.error) = "OperationFailed"
            => resp.status \in 500..599

(***************************************************************************)
(* C5.  manage_user with action update or delete and an absent or empty    *)
(* userId fails with MissingUserId, issues no backend call and leaves the  *)
(* user rows as they were when the request arrived.                        *)
(***************************************************************************)
C5_MissingUserIdNoBackendCall ==
    (/\ loc.op = MU /\ loc.args.present
     /\ loc.args.action \in {"update", "delete"}
     /\ Falsy(loc.args.userId))
    => /\ queries = <<>>
       /\ profiles = before
       /\ Answered
       /\ ErrorKind(resp.error) = "MissingUserId"
       /\ resp.result.kind = "none"

\* A delete without userId was refused.
C5_Witness ==
    /\ Answered /\ loc.op = MU /\ loc.args.action = "delete"
    /\ Falsy(loc.args.userId)
    /\ resp.error = UserIdRequired("delete")
    /\ profiles # SeedProfiles

(***************************************************************************)
(* C6.  When an API key is configured, a request that does not present it  *)
(* is rejected (401 or 403) before any operation or backend query runs, in *)
(* every variant; when none is configured no request is rejected.          *)
(* part_000 and part_001:1 register their routes without authenticate.     *)
(***************************************************************************)
C6_KeyGatesEveryVariant ==
    /\ (apiKey # <<>> /\ sent.url # "" /\ ~PresentsKey)
         => /\ queries = <<>>
            /\ loc.op = "none"
            /\ Answered => Rejected
    /\ apiKey = <<>> => ~Rejected

(***************************************************************************)
(* C7.  A successful manage_user update changes, in the row with the given *)
(* id, only fields among name, email and role that are present in data,    *)
(* and no other row, whatever keys data holds.  The code passes data to    *)
(* update() as it came.                                                    *)
(***************************************************************************)
C7_UpdateOnlyListedFields ==
    (Succeeded /\ loc.op = MU /\ loc.args.action = "update")
    => /\ {r.id : r \in profiles} = {r.id : r \in before}
       /\ \A r \in profiles :
            LET old == RowOf(before, r.id) IN
            IF r.id = loc.args.userId
            THEN \A c \in AllColumns :
                   r[c] # old[c]
                     => c \in {"name", "email", "role"} \cap loc.args.data.cols
            ELSE r = old

(***************************************************************************)
(* C8.  When startDate or endDate is absent, user_analytics issues no      *)
(* created_at-filtered query and a successful response has newUsers = 0,   *)
(* whatever the backend holds.                                             *)
(***************************************************************************)
C8_NoRangeNoNewUsers ==
    (loc.op = GUA /\ (loc.args.startDate = NoDate \/ loc.args.endDate = NoDate))
    => /\ \A i \in DOMAIN queries : queries[i].q # "count_created"
       /\ pc # "ua_new"
       /\ Succeeded => resp.result.newUsers = 0

\* user_analytics answered with only startDate given.
C8_Witness ==
    /\ Succeeded /\ loc.op = GUA
    /\ loc.args.startDate # NoDate /\ loc.args.endDate = NoDate
    /\ resp.result.newUsers = 0 /\ resp.result.totalUsers > 0
    /\ Len(queries) = 2

(***************************************************************************)
(* C9.  With both dates given and every backend query successful,          *)
(* user_analytics returns newUsers = the number of rows with created_at in *)
(* [startDate, endDate], both ends included, on every variant that exposes *)
(* get_user_analytics.  part_001:1 returns the constant 0.                 *)
(***************************************************************************)
C9_NewUsersCountsInclusiveRange ==
    (/\ Succeeded /\ loc.op = GUA /\ ~SomeQueryFailed
     /\ loc.args.startDate # NoDate /\ loc.args.endDate # NoDate)
    => resp.result.newUsers =
         Cardinality({r \in before : /\ loc.args.startDate <= r.created_at
                                     /\ r.created_at <= loc.args.endDate})

(***************************************************************************)
(* C10.  user_analytics and payment_analytics called with startDate later  *)
(* than endDate raise no error: when the backend calls succeed the request *)
(* succeeds, with newUsers = 0 and with payment totals over no rows.       *)
(***************************************************************************)
C10_ReversedRangeIsEmpty ==
    (/\ Answered /\ loc.op \in {GUA, GPA} /\ ~SomeQueryFailed
     /\ loc.args.startDate # NoDate /\ loc.args.endDate # NoDate
     /\ loc.args.startDate > loc.args.endDate)
    => /\ resp.status = 200 /\ resp.error = <<>>
       /\ loc.op = GUA => resp.result.newUsers = 0
       /\ loc.op = GPA => /\ resp.result.totalTransactions = 0
                          /\ resp.result.completedTransactions = 0
                          /\ resp.result.totalRevenue = 0
                          /\ resp.result.conversionRate.num = 0

\* api/index.js answered user_analytics for a reversed range that rows lie
\* after the start of.
C10_Witness ==
    /\ Succeeded /\ server = SrvApi /\ loc.op = GUA
    /\ loc.args.startDate = 2 /\ loc.args.endDate = 1
    /\ Len(queries) = 3 /\ ~SomeQueryFailed
    /\ resp.result.newUsers = 0 /\ resp.result.totalUsers >= 2

\* The rows of `payments` a request with the arguments in `loc` asks for.
Fetched ==
    IF loc.args.startDate # NoDate /\ loc.args.endDate # NoDate
    THEN SelectSeq(payments, LAMBDA p : /\ loc.args.startDate <= p.created_at
                                       /\ p.created_at <= loc.args.endDate)
    ELSE payments
RECURSIVE SumAmounts(_, _)
\* The sum of the amounts of the rows of `rows` at the indexes `I`.
SumAmounts(rows, I) ==
    IF I = {} THEN 0
    ELSE LET i == CHOOSE j \in I : TRUE
         IN  rows[i].amount + SumAmounts(rows, I \ {i})

(***************************************************************************)
(* C11.  For every table of payment rows, a payment_analytics request      *)
(* whose backend calls did not fail returns totalTransactions = the number *)
(* of the rows it asked for, of any status, completedTransactions = the    *)
(* number of those whose status is exactly "completed", and totalRevenue = *)
(* the sum of amount over those completed rows, 0 when there is none.      *)
(* part_001:1 answers get_payment_analytics with constants.                *)
(***************************************************************************)
C11_PaymentTotals ==
    (Succeeded /\ loc.op = GPA /\ ~SomeQueryFailed)
    => LET done == {i \in DOMAIN Fetched : Fetched[i].status = "completed"}
       IN  /\ resp.result.totalTransactions = Len(Fetched)
           /\ resp.result.completedTransactions = Cardinality(done)
           /\ resp.result.totalRevenue = SumAmounts(Fetched, done)

(***************************************************************************)
(* C12.  getPaymentAnalytics of api/index.js (and its copy in              *)
(* part_001:150) returns conversionRate = completedTransactions /          *)
(* totalTransactions * 100 when totalTransactions > 0; with no rows every  *)
(* variant returns totalRevenue = 0 and conversionRate = 0, and a request  *)
(* whose query succeeded is answered 200 however many rows it fetched.     *)
(***************************************************************************)
C12_ConversionRate ==
    /\ (Succeeded /\ loc.op = GPA)
       => LET r == resp.result IN
          /\ (server \in {SrvApi, SrvAuth} /\ r.totalTransactions > 0)
               => r.conversionRate.num * r.totalTransactions
                    = r.completedTransactions * 100 * r.conversionRate.den
          /\ r.totalTransactions = 0
               => r.totalRevenue = 0 /\ r.conversionRate.num = 0
    /\ (Answered /\ loc.op = GPA /\ ~SomeQueryFailed)
       => resp.status = 200 /\ resp.error = <<>>

\* api/index.js answered for a date range that holds none of the rows of a
\* table that is not empty.
C12_Witness ==
    /\ Succeeded /\ server = SrvApi /\ loc.op = GPA
    /\ payments # <<>> /\ Len(Fetched) = 0
    /\ loc.args.startDate # NoDate /\ loc.args.startDate <= loc.args.endDate
    /\ queries = <<Query("select_payments", TRUE)>>
    /\ resp.result.totalTransactions = 0
    /\ resp.result.totalRevenue = 0
    /\ resp.result.conversionRate = [type |-> "number", num |-> 0, den |-> 1]

(***************************************************************************)
(* C13.  In every variant payment_analytics returns conversionRate as a    *)
(* number, the unrounded ratio completedTransactions / totalTransactions   *)
(* * 100 (0 without rows), never a string or a value rounded to two        *)
(* decimals.  part_000 and part_002 return conversionRate.toFixed(2).      *)
(***************************************************************************)
C13_RawRatioEverywhere ==
    (Succeeded /\ loc.op = GPA)
    => LET r == resp.result IN
       /\ r.conversionRate.type = "number"
       /\ IF r.totalTransactions > 0
          THEN r.conversionRate.num * r.totalTransactions
                 = r.completedTransactions * 100 * r.conversionRate.den
          ELSE r.conversionRate.num = 0

(***************************************************************************)
(* C14.  manage_user with action delete and a non-empty userId answers     *)
(* { deleted: true } whenever the backend delete call reports no error,    *)
(* whether or not a row has that id: the rows with that id are gone, the   *)
(* others are kept, and when no row had the id the rows are unchanged and  *)
(* the response is the one of a delete that removed a row.                 *)
(***************************************************************************)
C14_DeleteReportsDeleted ==
    (/\ Answered /\ loc.op = MU /\ loc.args.present
     /\ loc.args.action = "delete" /\ ~Falsy(loc.args.userId)
     /\ ~SomeQueryFailed)
    => /\ queries = <<Query("delete_user", TRUE)>>
       /\ resp.status = 200 /\ resp.error = <<>>
       /\ resp.result = [kind |-> "deleted", deleted |-> TRUE]
       /\ profiles = {r \in before : r.id # loc.args.userId}
       /\ (\A r \in before : r.id # loc.args.userId) => profiles = before

\* A delete of an id no row has was answered { deleted: true }.
C14_Witness ==
    /\ Succeeded /\ loc.op = MU /\ loc.args.action = "delete"
    /\ loc.args.userId = "zz"
    /\ \A r \in before : r.id # "zz"
    /\ before # {} /\ profiles = before
    /\ resp.result = [kind |-> "deleted", deleted |-> TRUE]

(***************************************************************************)
(* C15.  On every endpoint that reaches manage_user, a call whose action   *)
(* is not list, update or delete (an absent action and an absent arguments *)
(* object included) fails with an UnknownAction error that names the       *)
(* action, and issues no backend query.  manageUser destructures its       *)
(* parameter without a default, and /functions/manage_user answers a       *)
(* falsy action itself.                                                    *)
(***************************************************************************)
C15_OtherActionIsUnknownAction ==
    (/\ sent.name = MU /\ MU \in Registered(server)
     /\ sent.url \in {FnMU, McpCall} /\ ~Rejected
     /\ \/ ~sent.args.present
        \/ sent.args.action \notin {"list", "update", "delete"})
    => /\ queries = <<>>
       /\ Over => /\ Answered
                  /\ ErrorKind(resp.error) = "UnknownAction"
                  /\ Str(sent.args.action) \in Range(resp.error)

(***************************************************************************)
(* C16.  In every variant that exposes it, the user list (manage_user with *)
(* action list, or list_users) returns at most 100 records, each with      *)
(* exactly the fields id, email, name, created_at and role.  part_001:1    *)
(* selects 'id, email, name'.                                              *)
(***************************************************************************)
C16_UserListProjection ==
    (/\ Succeeded
     /\ \/ loc.op = LU
        \/ loc.op = MU /\ loc.args.action = "list")
    => /\ Cardinality(resp.result.users) <= 100
       /\ \A u \in resp.result.users :
            DOMAIN u = {"id", "email", "name", "created_at", "role"}

(***************************************************************************)
(* C17.  In every variant that forwards, a POST /mcp/call or /tool/call    *)
(* that passed authentication and names a registered tool is handed to the *)
(* router once, as a request for /execute, never for /mcp/call again, and  *)
(* ends with the one response of the /execute handler: the process does    *)
(* not lose the request and the error middleware does not answer it.       *)
(* part_002 hands the request back with req.url unchanged.                 *)
(***************************************************************************)
C17_ForwardReachesExecute ==
    (/\ server \in {SrvOpen, SrvMin, SrvKey}
     /\ sent.url \in {McpCall, ToolCall}
     /\ sent.name \in Registered(server) /\ ~Rejected)
    => /\ depth <= 1
       /\ depth = 1 => req.url = Execute
       /\ pc # "crashed"
       /\ Answered => /\ depth = 1
                      /\ resp.error # <<"Internal server error">>
                      /\ resp.wrapped = Wrapped(server, Execute)

(***************************************************************************)
(* C18.  In api/index.js the same tool name and argument object (an empty  *)
(* one included), sent to /functions/{toolName} and to /mcp/call against   *)
(* the same rows and with the same backend replies, give the same payload, *)
(* or the same error kind with the same status class.  The two surfaces    *)
(* differ for manage_user without action.                                  *)
(***************************************************************************)
C18_SameOutcomeOnEverySurface ==
    (/\ Answered /\ last.url # "" /\ last.url # sent.url
     /\ last.name = sent.name /\ last.args = sent.args /\ sent.args.present
     /\ last.before = before /\ last.queries = queries /\ last.now = loc.now)
    => IF resp.status = 200
       THEN last.resp.status = 200 /\ last.resp.result = resp.result
       ELSE /\ ErrorKind(last.resp.error) = ErrorKind(resp.error)
            /\ last.resp.status \div 100 = resp.status \div 100

(***************************************************************************)
(* C19.  No backend query is retried: within one request no query is       *)
(* issued twice, user_analytics issues at most three queries and           *)
(* payment_analytics, manage_user and the user list one, and a query that  *)
(* returned an error is the last query of its request.  The operations of  *)
(* part_000 and part_002 do not read the error and go on to their next     *)
(* query.                                                                  *)
(***************************************************************************)
C19_NoRetryNoQueryAfterError ==
    /\ \A i, j \in DOMAIN queries : i # j => queries[i].q # queries[j].q
    /\ Len(queries) <= (IF loc.op = GUA THEN 3
                        ELSE IF loc.op \in {GPA, MU, LU} THEN 1 ELSE 0)
    /\ \A i \in DOMAIN queries : ~queries[i].ok => i = Len(queries)

(***************************************************************************)
(* C20.  When a query of user_analytics fails, whichever of the three it   *)
(* is, the caller receives one failure response of the same shape: status  *)
(* 500 with the error message and no field of the partial result.          *)
(* part_000 and part_002 answer 200 with the counts of the queries that    *)
(* succeeded and 0 for the one that failed.                                *)
(***************************************************************************)
C20_PartialFailureIsOneFailure ==
    (Answered /\ loc.op = GUA /\ SomeQueryFailed)
    => /\ resp.status = 500
       /\ resp.error = BackendMsg
       /\ resp.result = NoPayload

\* The document the client was last given lists tools.
Told == last.resp.status = 200 /\ last.resp.result.kind \in {"tools", "openapi"}
\* The tool names of that document: the names of a tool list, the names
\* after /functions/ of the paths of an OpenAPI document.
ToldNames ==
    IF last.resp.result.kind = "tools"
    THEN {d.name : d \in last.resp.result.tools}
    ELSE {n \in NameInputs :
            "/functions/" \o n \in {e.path : e \in last.resp.result.paths}}
\* The routes whose handler holds the switch over the tool name (or, for a
\* /functions route, is the handler of one tool).
DispatchRoutes(srv) ==
    CASE srv = SrvApi  -> {FnUA, FnPA, FnMU, McpCall}
      [] srv = SrvAuth -> {McpCall}
      [] OTHER         -> {Execute}
\* The payload kinds of a tool's result.
ResultKinds(name) ==
    CASE name = GUA -> {"user_analytics"}
      [] name = GPA -> {"payment_analytics"}
      [] name = MU  -> {"users", "deleted"}
      [] name = LU  -> {"users", "users_min"}
      [] OTHER      -> {}

ToolWords ==
    {<<"get", "user", "analytics">>, <<"get", "payment", "analytics">>,
     <<"manage", "user">>}
\* A word with its first letter in upper case.
Capitalized(w) ==
    CASE w = "user"      -> "User"
      [] w = "payment"   -> "Payment"
      [] w = "analytics" -> "Analytics"
      [] w = "manage"    -> "Manage"
      [] w = "get"       -> "Get"
RECURSIVE SnakeCase(_)
\* get_user_analytics
SnakeCase(ws) ==
    IF Len(ws) = 1 THEN ws[1] ELSE ws[1] \o "_" \o SnakeCase(Tail(ws))
RECURSIVE CamelTail(_)
CamelTail(ws) ==
    IF ws = <<>> THEN "" ELSE Capitalized(ws[1]) \o CamelTail(Tail(ws))
\* getUserAnalytics
CamelCase(ws) == ws[1] \o CamelTail(Tail(ws))
\* The operationIds of an OpenAPI document with the required fields of each.
Operations(doc) ==
    {[id |-> e.operationId, required |-> e.request.required] : e \in doc.paths}

(***************************************************************************)
(* C22.  Every OpenAPI rendering (GET /openapi.json, GET /openapi.yaml,    *)
(* GET /api/openapi.json) holds exactly three paths, /functions/ followed  *)
(* by get_user_analytics, get_payment_analytics and manage_user, each with *)
(* the tool name in camelCase as operationId; manage_user requires exactly *)
(* action and the other two nothing; and two renderings, or two calls of   *)
(* one, agree on the operationIds and their required fields whatever the   *)
(* host and protocol of the requests.                                      *)
(***************************************************************************)
C22_OpenApiThreePaths ==
    (Answered /\ resp.result.kind = "openapi")
    => LET paths == resp.result.paths IN
       /\ Cardinality(paths) = 3
       /\ {e.path : e \in paths} = {"/functions/" \o n : n \in {GUA, GPA, MU}}
       /\ \A e \in paths :
            \E ws \in ToolWords :
               /\ e.path = "/functions/" \o SnakeCase(ws)
               /\ e.operationId = CamelCase(ws)
               /\ e.request.required =
                    (IF SnakeCase(ws) = MU THEN {"action"} ELSE {})
       /\ last.resp.result.kind = "openapi"
            => Operations(resp.result) = Operations(last.resp.result)

\* /openapi.yaml was served over http after /api/openapi.json was served for
\* another host.
C22_Witness ==
    /\ Answered /\ resp.result.kind = "openapi" /\ sent.url = GetOpenApiYaml
    /\ last.resp.result.kind = "openapi" /\ last.url = GetApiOpenApiJson
    /\ resp.result.url # last.resp.result.url
    /\ resp.result.url[1] = "http"
    /\ Head(resp.result.url) # Head(last.resp.result.url)
    /\ resp.result.url[3] # last.resp.result.url[3]

RECURSIVE AllNodes(_)
\* A schema node and the nodes below it.
AllNodes(n) == {n} \cup UNION {AllNodes(c) : c \in n.children}
\* The schema nodes of a discovery document.
DocumentNodes(doc) ==
    IF doc.kind = "tools"
    THEN UNION {AllNodes(d.schema) : d \in doc.tools}
    ELSE UNION {AllNodes(e.request) \cup AllNodes(e.response) : e \in doc.paths}

(***************************************************************************)
(* C23.  In every tool list and OpenAPI document any variant serves, every *)
(* name in the required list of a schema node is one of the properties of  *)
(* that node.                                                              *)
(***************************************************************************)
C23_RequiredAreProperties ==
    (Answered /\ resp.result.kind \in {"tools", "openapi"})
    => \A n \in DocumentNodes(resp.result) : n.required \subseteq n.properties

\* api/index.js served /mcp/tools, where manage_user requires action.
C23_Witness ==
    /\ Answered /\ server = SrvApi /\ sent.url = GetMcpTools
    /\ resp.result.kind = "tools"
    /\ \E n \in DocumentNodes(resp.result) :
          n.required = {"action"} /\ "action" \in n.properties

(***************************************************************************)
(* Two requests in flight.                                                 *)
(***************************************************************************)
\* The exchange the client kept is the same invocation as the one just
\* answered, against the same rows, with the same backend outcomes and the
\* same call instant.
SameRunAsLast ==
    /\ last.url = sent.url
    /\ last.name = sent.name
    /\ last.args = sent.args
    /\ last.before = before
    /\ last.queries = queries
    /\ last.now = loc.now

\* The running handler and the suspended one change places, whole.
Swapped ==
    /\ other'.pc = pc /\ other'.req = req /\ other'.sent = sent
    /\ other'.loc = loc /\ other'.queries = queries
    /\ other'.depth = depth /\ other'.resp = resp
    /\ pc' = other.pc /\ req' = other.req /\ sent' = other.sent
    /\ loc' = other.loc /\ queries' = other.queries
    /\ depth' = other.depth /\ resp' = other.resp

\* C24: two read-only requests in flight (user_analytics, payment_analytics,
\* the user list) share no state of the process.  Whatever the interleaving
\* of their backend calls, the response of a request is the response the same
\* invocation gets in any other run with the same backend contents, backend
\* outcomes and call instant, the run alone included; no step of a handler
\* reads or writes the other request, whose data changes hands only when the
\* event loop resumes it; and no step writes the backend.
C24_ConcurrentReadsAreIsolated ==
    /\ []((Over /\ SameRunAsLast) => resp = last.resp)
    /\ [][(other' = other \/ Swapped)
          /\ profiles' = profiles /\ payments' = payments]_vars

\* A user_analytics request is answered after its three backend calls, while
\* a second user_analytics request with another range is suspended between
\* its own calls, and the client holds an earlier exchange of the same run.
C24_Witness ==
    /\ Succeeded /\ SameRunAsLast
    /\ sent.name = GUA /\ Len(queries) = 3
    /\ other.pc = "ua_new"
    /\ other.sent.name = GUA /\ other.sent.args # sent.args

(***************************************************************************)
(* The active-user window.                                                 *)
(***************************************************************************)
\* The rows whose updated_at lies within the 30 days ending at `now`.
UpdatedWithinWindow(P, now) ==
    {r \in P : now - WindowDays <= r.updated_at /\ r.updated_at <= now}

\* C25: activeUsers of a user_analytics result is the number of rows whose
\* updated_at lies within the 30 days that end at the instant of the call; a
\* row updated before that window, or after the instant of the call, is not
\* counted.
C25_ActiveUsersWithinWindow ==
    (/\ Succeeded /\ sent.name = GUA
     /\ Len(queries) >= 2 /\ queries[2].ok)
    => resp.result.activeUsers
         = Cardinality(UpdatedWithinWindow(profiles, loc.now))

(***************************************************************************)
(* One response per request in api/index.js.                               *)
(***************************************************************************)
\* C26: in api/index.js every request to an invocation endpoint gets exactly
\* one response, on every path (rejected by authenticate, failed validation,
\* unknown method, success, backend failure): a response is sent exactly when
\* the handler is through, it carries a result or an error and never both,
\* nothing is sent after it, and a request the router has taken is answered
\* once its backend calls have returned.
C26_ExactlyOneResponse ==
    /\ [](pc # "crashed")
    /\ [](Answered <=> resp # NoResp)
    /\ [](Answered => ((resp.error # <<>>) <=> (resp.result.kind = "none")))
    /\ [][resp # NoResp => (resp' = NoResp /\ pc' = "idle")]_vars
    /\ ((pc # "idle") ~> Answered)

\* A backend call of a request has failed and the request is answered by the
\* catch block: 500 with an error and no result.
C26_Witness ==
    /\ server = SrvApi /\ Answered /\ SomeQueryFailed
    /\ resp.status = 500 /\ resp.error # <<>> /\ resp.result = NoPayload

(***************************************************************************)
(* user_analytics against concurrent writers.                              *)
(***************************************************************************)
\* C27: in api/index.js every successful user_analytics response has
\* activeUsers <= totalUsers and newUsers <= totalUsers, however its three
\* backend calls interleave with manage_user update and delete requests: the
\* total is taken first and no operation adds a row.
C27_CountsBoundedByTotal ==
    (Succeeded /\ sent.name = GUA)
    => /\ resp.result.activeUsers <= resp.result.totalUsers
       /\ resp.result.newUsers <= resp.result.totalUsers

\* A user_analytics request with a date range is answered after a delete of
\* another request took effect between its first call and its last: the
\* table now holds fewer rows than the total it reports.
C27_Witness ==
    /\ server = SrvApi /\ Succeeded /\ sent.name = GUA
    /\ Len(queries) = 3
    /\ profiles # before
    /\ Cardinality(profiles) < resp.result.totalUsers

=============================================================================
